---- MODULE Spec2Model ----
(***************************************************************************)
(* Storage subsystem of soleo-spike-api: the Local filesystem backend      *)
(* (LocalStorage), the integrity stream (IntegrityStreamFactory), the      *)
(* orchestration service (StorageService) and the download entry point     *)
(* (StorageController.downloadFileFromStorage).                            *)
(*                                                                         *)
(* Text is a sequence of one-character strings ("a.b" is <<"a",".","b">>). *)
(* A path is a sequence of segments, each segment a text.  Bytes are small *)
(* naturals, a chunk is a non-empty sequence of bytes.                     *)
(*                                                                         *)
(* Node's stream library is modelled at the level of its documented        *)
(* events: a Readable piped into a PassThrough piped into an               *)
(* fs.WriteStream, with highWaterMark backpressure (write() returning      *)
(* false pauses the piping source until 'drain').  The PassThrough's       *)
(* 'finish' fires when its writable side has been ended and every written  *)
(* chunk has been transformed; its 'end' fires when every chunk has been   *)
(* read out of it.  One event handler is one action.                       *)
(***************************************************************************)
EXTENDS Integers, Sequences, FiniteSets, TLC

\* ------------------------------------------------------------------ bounds

\* Longest payload of an upload, in bytes.
MaxBytes == 3

\* highWaterMark of the streams, in bytes (Node's default is 16 KiB; scaled).
HighWaterMark == 2

\* Longest file name a download request of SpecEntry carries.
MaxNameLen == 4

\* ------------------------------------------------------------------ data

Byte == {1, 2}

RECURSIVE SeqsUpTo(_, _)
\* all sequences over S of length at most n
SeqsUpTo(S, n) ==
  IF n = 0 THEN {<<>>}
  ELSE LET shorter == SeqsUpTo(S, n - 1)
       IN  shorter \cup {Append(s, x) : s \in {t \in shorter : Len(t) = n - 1}, x \in S}

ByteSeqs == SeqsUpTo(Byte, MaxBytes)

Chunk == ByteSeqs \ {<<>>}

RECURSIVE Flatten(_)
\* the bytes of a sequence of chunks, in order
Flatten(cs) == IF cs = <<>> THEN <<>> ELSE Head(cs) \o Flatten(Tail(cs))

\* number of bytes held in a buffer of chunks
Bytes(cs) == Len(Flatten(cs))

RECURSIVE ChunkSeqsWithin(_)
\* the sequences of chunks that carry at most n bytes
ChunkSeqsWithin(n) ==
  {<<>>} \cup UNION {{<<c>> \o rest : rest \in ChunkSeqsWithin(n - Len(c))} :
                     c \in {d \in Chunk : Len(d) <= n}}

\* every way to deliver a payload of at most MaxBytes bytes as chunks
ChunkSeqs == ChunkSeqsWithin(MaxBytes)

\* ------------------------------------------------------------------ paths

RECURSIVE SplitOn(_, _, _)
\* text split at every occurrence of sep; cur is the segment being read
SplitOn(text, sep, cur) ==
  IF text = <<>> THEN <<cur>>
  ELSE IF Head(text) = sep THEN <<cur>> \o SplitOn(Tail(text), sep, <<>>)
  ELSE SplitOn(Tail(text), sep, Append(cur, Head(text)))

RECURSIVE Normalize(_, _)
\* POSIX path.normalize of an absolute path: empty and "." segments are
\* dropped, ".." removes the segment before it (and is dropped at the root)
Normalize(segs, acc) ==
  IF segs = <<>> THEN acc
  ELSE LET s == Head(segs)
       IN  IF s = <<>> \/ s = <<".">> THEN Normalize(Tail(segs), acc)
           ELSE IF s = <<".", ".">>
             THEN Normalize(Tail(segs),
                            IF acc = <<>> THEN acc ELSE SubSeq(acc, 1, Len(acc) - 1))
           ELSE Normalize(Tail(segs), Append(acc, s))

\* path.join(dir, name) on POSIX, dir an absolute normalized path
PathJoin(dir, name) == Normalize(dir \o SplitOn(name, "/", <<>>), <<>>)

\* the directory a path lies in
Parent(p) == SubSeq(p, 1, Len(p) - 1)

\* p lies strictly inside directory dir
StrictlyInside(p, dir) == Len(p) > Len(dir) /\ SubSeq(p, 1, Len(dir)) = dir

\* getServerConfig().localStoragePath: os.tmpdir() unless configured
BaseDir == << <<"t", "m", "p">> >>

UploadsName == <<"u", "p", "l", "o", "a", "d", "s">>

\* LocalStorage.uploadDir and StorageService.uploadDir
UploadDir == PathJoin(BaseDir, UploadsName)

\* ------------------------------------------------------------------ integrity

\* the members of enum IntegrityMode
IntegrityMode == {"NONE", "SIZE", "SHA256"}

\* what INTEGRITY_CHECK may hold: the value is cast, never validated, so a
\* string outside the enum ("HASH") reaches IntegrityStreamFactory.create too
ConfiguredModes == IntegrityMode \cup {"HASH"}

\* IntegrityMetadata.hash === undefined (a digest is never the empty text)
NoHash == <<>>

\* crypto.createHash('sha256'): the state of a fresh hasher.  A rolling
\* polynomial checksum stands in for SHA-256: like it, a function of the
\* byte sequence fed so far, sensitive to order and to every byte.
CreateHash == 0

RECURSIVE HashUpdate(_, _)
\* hasher.update(chunk): the bytes of the chunk fed one after the other
HashUpdate(h, chunk) ==
  IF chunk = <<>> THEN h
  ELSE HashUpdate((h * 3 + Head(chunk)) % 256, Tail(chunk))

HexDigits ==
  <<"0", "1", "2", "3", "4", "5", "6", "7", "8", "9", "a", "b", "c", "d", "e", "f">>

\* hasher.digest('hex')
HashDigestHex(h) == <<HexDigits[(h \div 16) + 1], HexDigits[(h % 16) + 1]>>

\* variant: a hasher created whatever the mode
HasHasher_Always(m) == m = m

\* IntegrityStreamFactory.create: `hasher` is set only for IntegrityMode.SHA256
HasHasher(m) == m = "SHA256"

\* The integrity stream's 'data' listener on one chunk: size += chunk.length;
\* hasher.update(chunk).  update() on a hasher whose digest() was already
\* taken throws ERR_CRYPTO_HASH_FINALIZED out of the listener.
OnData(ig, chunk, m) ==
  IF HasHasher(m) /\ ig.digested
    THEN [ig EXCEPT !.threw = TRUE]
    ELSE [ig EXCEPT !.size = @ + Len(chunk),
                    !.hasher = IF HasHasher(m) THEN HashUpdate(@, chunk) ELSE @]

\* The integrity stream's 'finish' listener: resolves the result promise with
\* the size counted so far and, with a hasher, its digest.
OnFinish(ig, m) ==
  [ig EXCEPT !.resolved = TRUE,
             !.digested = HasHasher(m),
             !.result = [size |-> ig.size,
                         hash |-> IF HasHasher(m) THEN HashDigestHex(ig.hasher) ELSE NoHash]]

\* state of the closure IntegrityStreamFactory.create returns
NewIntegrity ==
  [size |-> 0, hasher |-> CreateHash, digested |-> FALSE, threw |-> FALSE,
   resolved |-> FALSE, result |-> [size |-> 0, hash |-> NoHash]]

\* ------------------------------------------------------------------ state

VARIABLES
  proc,     \* the Node process: "running" or "crashed" (uncaught exception)
  mode,     \* getServerConfig().integrityMode
  disk,     \* the files: path -> bytes
  dirs,     \* the directories that exist
  up,       \* the LocalStorage.uploadFileToStorage call: pc, name, path, result
  payload,  \* every byte the upload's source stream carries
  src,      \* the source Readable: chunks not yet emitted, state
  pt,       \* the PassThrough's read side: buffered chunks, flowing, ended
  integ,    \* the integrity closure: size, hasher, result promise
  ws,       \* the fs.WriteStream: pending chunks, opened, ending, state
  fault,    \* the I/O failures that happened during the upload
  svcUp,    \* the StorageService.uploadFileToStorage call around `up`
  dl,       \* the latest download call made on the core
  req,      \* the latest request handled by the download entry point
  pair,     \* two uploads through the upload entry point, and the clock
  prov,     \* the provider selection: its configuration and its outcome
  inst,     \* the StorageService instances being constructed
  http,     \* the Express app: the limiter's hits and the latest request
  conc,     \* two LocalStorage uploads in flight, chunk by chunk
  thrown    \* the latest value given to toError, and what it returned

\* the variables of the upload pipeline and the downloads
coreVars == <<proc, mode, disk, dirs, up, payload, src, pt, integ, ws, fault, svcUp, dl, req>>

\* the variables of the other parts of the subsystem
auxVars == <<pair, prov, inst, http, conc, thrown>>

vars == <<coreVars, auxVars>>

pipeVars == <<up, payload, src, pt, integ, ws, fault, svcUp>>

\* ------------------------------------------------------------------ names

NameAB == <<"a", ".", "b">>

NameParentS == <<".", ".", "/", "s">>

NameSlash == <<"a", "/", "b">>

NameBackslash == <<"a", "\\", "b">>

NameUploadsAB == UploadsName \o <<"/">> \o NameAB

\* names given to the store operation of the core
UploadNames == {NameAB, NameSlash}

\* names given to the retrieve operation of the core
DownloadNames ==
  {NameAB, NameParentS, NameSlash, NameBackslash, NameUploadsAB, UploadsName}

\* files the machine holds before the service starts: one directly under the
\* base (temp) directory, one outside it
EnvDisk ==
  (PathJoin(BaseDir, NameAB) :> <<2, 1, 2>>) @@ (PathJoin(BaseDir, NameParentS) :> <<1, 1>>)

EmptyDisk == [p \in {} |-> <<>>]

\* the file at path p holds bytes b (created or replaced)
WriteFile(d, p, b) == [q \in DOMAIN d \cup {p} |-> IF q = p THEN b ELSE d[q]]

NoError == [name |-> "", code |-> "", message |-> ""]

\* new Error(message): no code, no name of its own
NewError(message) == [name |-> "Error", code |-> "", message |-> message]

\* the error LocalStorage.downloadFileFromStorage throws from its catch
LocalNotFoundError == NewError("File not found or not readable")

\* the error the download entry point hands to next() for a bad name
InvalidFilenameError == NewError("Invalid filename format")

NoResult == [filename |-> <<>>, path |-> <<>>, size |-> 0, hash |-> NoHash]

IdleUpload == [pc |-> "idle", name |-> <<>>, path |-> <<>>, result |-> NoResult]

IdleSource == [chunks |-> <<>>, state |-> "none"]

IdlePassThrough == [buf |-> <<>>, flowing |-> FALSE, ended |-> FALSE]

IdleWriteStream == [buf |-> <<>>, opened |-> FALSE, ending |-> FALSE, state |-> "none"]

IdleService == [pc |-> "idle", result |-> NoResult, nextCalled |-> FALSE]

NoDownload ==
  [called |-> FALSE, name |-> <<>>, touched |-> {}, backend |-> "none",
   data |-> <<>>, readError |-> FALSE, error |-> NoError, service |-> "none",
   placeholder |-> FALSE, nextCalled |-> FALSE]

NoRequest ==
  [handled |-> FALSE, present |-> FALSE, filename |-> <<>>, status |-> 0,
   error |-> "", nextCalls |-> 0, threw |-> FALSE, svcInvoked |-> FALSE,
   touched |-> {}, piped |-> FALSE]

\* no upload has reached the upload entry point yet
IdlePairUpload ==
  [pc |-> "none", original |-> <<>>, stored |-> <<>>, path |-> <<>>,
   bytes |-> <<>>, pos |-> 0, result |-> NoResult]

NoPair == [clock |-> 0, ups |-> [u \in {1, 2} |-> IdlePairUpload]]

\* no provider has been selected yet
NoProvider ==
  [kind |-> <<>>, accountName |-> FALSE, accountKey |-> FALSE,
   selected |-> "none", error |-> NoError,
   op |-> "none", outcome |-> "none"]

\* no StorageService is being constructed
NoInstances == [i \in {} |-> "new"]

\* a response body: its fixed text and the error message embedded in it
NoBody == [text |-> "", detail |-> ""]

NoFile == [present |-> FALSE, originalname |-> <<>>, mimetype |-> "", buffer |-> <<>>]

\* a request that has not reached the app yet, and its untouched response
NoExchange ==
  [route |-> "none", deployment |-> "", file |-> NoFile, present |-> FALSE,
   filename |-> <<>>, now |-> 0, backendFails |-> FALSE,
   hasUsername |-> FALSE, username |-> <<>>, password |-> <<>>,
   authorization |-> FALSE, token |-> "",
   limited |-> FALSE, svcInvoked |-> FALSE, stored |-> <<>>, piped |-> FALSE,
   nextCalls |-> 0, thrown |-> "", sends |-> 0,
   headersSent |-> FALSE, status |-> 0, body |-> NoBody]

\* the app before its first request: no hit counted, nothing served
NoHttp == [deployment |-> "TEST", hits |-> 0, served |-> 0, last |-> NoExchange]

\* neither of the two uploads has called IntegrityStreamFactory.create yet
NoConc ==
  [u \in {1, 2} |->
     [pc |-> "none", payload |-> <<>>, chunks |-> <<>>, joined |-> FALSE,
      ig |-> NewIntegrity, result |-> [size |-> 0, hash |-> NoHash]]]

\* toError has not been called yet; a value is its type, its identity
\* (objects) or magnitude (numbers), and its text (strings, messages)
NoThrown ==
  [called |-> FALSE, value |-> [type |-> "undefined", id |-> 0, text |-> <<>>],
   result |-> [type |-> "undefined", id |-> 0, text |-> <<>>]]

\* the pipeline and the downloads at rest, in integrity mode m over files d
CoreAtRest(m, d) ==
  /\ proc = "running"
  /\ mode = m
  /\ disk = d
  /\ dirs = {<<>>, BaseDir, UploadDir}
  /\ up = IdleUpload
  /\ payload = <<>>
  /\ src = IdleSource
  /\ pt = IdlePassThrough
  /\ integ = NewIntegrity
  /\ ws = IdleWriteStream
  /\ fault = {}
  /\ svcUp = IdleService
  /\ dl = NoDownload
  /\ req = NoRequest

\* The state once createApp has built the provider and the service:
\* StorageService's constructor has made sure <base>/uploads exists.
Init ==
  /\ \E m \in ConfiguredModes, d \in {EmptyDisk, EnvDisk} : CoreAtRest(m, d)
  /\ pair = NoPair
  /\ prov = NoProvider
  /\ inst = NoInstances
  /\ http = NoHttp
  /\ conc = NoConc
  /\ thrown = NoThrown

\* ------------------------------------------------------------------ upload

\* fs.createWriteStream's write(chunk): the chunk joins the pending writes
WriteStreamWrite(w, chunk) == [w EXCEPT !.buf = Append(@, chunk)]

\* variant: a write() that never reports a full buffer
WriteAccepted_Always(w) == Bytes(w.buf) >= 0

\* what write() returns: false once highWaterMark bytes are pending
WriteAccepted(w) == Bytes(w.buf) < HighWaterMark

RECURSIVE Flow(_)
\* The PassThrough's flow loop: while it is flowing it hands each buffered
\* chunk to its 'data' listeners in order: first the integrity listener
\* (registered in create()), then pipe()'s, which writes the chunk to the
\* write stream and pauses the PassThrough when write() returns false.
\* A listener that throws ends the loop.  st is [pt, ig, ws].
Flow(st) ==
  IF st.pt.buf = <<>> \/ ~st.pt.flowing \/ st.ig.threw THEN st
  ELSE LET chunk == Head(st.pt.buf)
           ig2 == OnData(st.ig, chunk, mode)
           ws2 == WriteStreamWrite(st.ws, chunk)
       IN  IF ig2.threw
             THEN [st EXCEPT !.ig = ig2, !.pt.buf = Tail(@)]
             ELSE Flow([pt |-> [st.pt EXCEPT !.buf = Tail(@),
                                             !.flowing = WriteAccepted(ws2)],
                        ig |-> ig2,
                        ws |-> ws2])

\* The PassThrough's 'end' (every chunk read out after end()): pipe() then
\* calls writeStream.end().
EndWhenDrained(st) ==
  IF st.pt.ended /\ st.pt.buf = <<>> /\ st.pt.flowing /\ ~st.ig.threw
    THEN [st EXCEPT !.ws.ending = TRUE]
    ELSE st

\* the source is paused by pipe() while the PassThrough holds highWaterMark
\* bytes, and resumed by its 'drain'
SourceAfter(st) ==
  IF src.state \in {"flowing", "paused"}
    THEN IF Bytes(st.pt.buf) >= HighWaterMark THEN "paused" ELSE "flowing"
    ELSE src.state

\* the variables of the three streams after a step that left them as st
StreamsBecome(st) ==
  /\ pt' = st.pt
  /\ integ' = st.ig
  /\ ws' = st.ws
  /\ proc' = IF st.ig.threw THEN "crashed" ELSE proc

\* StorageService.uploadFileToStorage(filename, filestream, next) up to its
\* await, and in it LocalStorage.uploadFileToStorage up to its await: the
\* integrity stream is created, the source piped into it, the write stream
\* created on <uploadDir>/<filename> and the integrity stream piped into it.
StartUpload(name, chunks) ==
  /\ proc = "running"
  /\ up.pc = "idle"
  /\ up' = [pc |-> "piping", name |-> name, path |-> PathJoin(UploadDir, name),
            result |-> NoResult]
  /\ payload' = Flatten(chunks)
  /\ src' = [chunks |-> chunks, state |-> "flowing"]
  /\ pt' = [buf |-> <<>>, flowing |-> TRUE, ended |-> FALSE]
  /\ integ' = NewIntegrity
  /\ ws' = [buf |-> <<>>, opened |-> FALSE, ending |-> FALSE, state |-> "open"]
  /\ svcUp' = [pc |-> "awaiting", result |-> NoResult, nextCalled |-> FALSE]
  /\ dl' = NoDownload
  /\ UNCHANGED <<proc, mode, disk, dirs, fault, req>>
  /\ UNCHANGED auxVars

\* The source emits its next chunk: pipe() writes it to the PassThrough,
\* which pushes it to its read side and, when flowing, emits it at once.
SourceData ==
  /\ proc = "running"
  /\ up.pc = "piping"
  /\ src.state = "flowing"
  /\ src.chunks # <<>>
  /\ LET pushed == [pt |-> [pt EXCEPT !.buf = Append(@, Head(src.chunks))],
                    ig |-> integ, ws |-> ws]
         st == Flow(pushed)
     IN  /\ StreamsBecome(st)
         /\ src' = [chunks |-> Tail(src.chunks), state |-> SourceAfter(st)]
  /\ UNCHANGED <<mode, disk, dirs, up, payload, fault, svcUp, dl, req>>
  /\ UNCHANGED auxVars

\* The source emits 'end': pipe() calls end() on the PassThrough, whose
\* write side has nothing left to transform, so its 'finish' follows in the
\* same turn of the event loop, before any disk callback; its 'end' follows
\* too when nothing is left to read out of it.
SourceEnd ==
  /\ proc = "running"
  /\ up.pc = "piping"
  /\ src.state = "flowing"
  /\ src.chunks = <<>>
  /\ src' = [src EXCEPT !.state = "ended"]
  /\ StreamsBecome(EndWhenDrained([pt |-> [pt EXCEPT !.ended = TRUE],
                                   ig |-> OnFinish(integ, mode),
                                   ws |-> ws]))
  /\ UNCHANGED <<mode, disk, dirs, up, payload, fault, svcUp, dl, req>>
  /\ UNCHANGED auxVars

\* The source emits 'error'.  Nothing listens for it in LocalStorage and
\* pipe() does not forward it: with no listener at all the event is an
\* uncaught exception, with a listener of the caller it is handled there.
\* Either way the PassThrough is never ended.
SourceError(handled) ==
  /\ proc = "running"
  /\ up.pc = "piping"
  /\ src.state \in {"flowing", "paused"}
  /\ src' = [src EXCEPT !.state = "errored"]
  /\ fault' = fault \cup {"source"}
  /\ proc' = IF handled THEN proc ELSE "crashed"
  /\ UNCHANGED <<mode, disk, dirs, up, payload, pt, integ, ws, svcUp, dl, req>>
  /\ UNCHANGED auxVars

\* The write stream's 'error': the stream is destroyed and its pending
\* writes dropped, pipe() unpipes the PassThrough from it, and the promise
\* LocalStorage awaits is rejected.  The streams of the rejected call reach
\* nothing any more and are no longer followed.
WriteStreamError ==
  /\ ws' = [IdleWriteStream EXCEPT !.state = "errored"]
  /\ src' = IdleSource
  /\ pt' = IdlePassThrough
  /\ integ' = NewIntegrity
  /\ up' = [up EXCEPT !.pc = "rejected"]
  /\ fault' = fault \cup {"dest"}

\* The write stream opens its file with flags 'w': the file is created or
\* truncated; ENOENT when the directory it lies in does not exist.
WriteStreamOpen ==
  /\ proc = "running"
  /\ up.pc = "piping"
  /\ ws.state = "open"
  /\ ~ws.opened
  /\ IF Parent(up.path) \in dirs
       THEN /\ ws' = [ws EXCEPT !.opened = TRUE]
            /\ disk' = WriteFile(disk, up.path, <<>>)
            /\ UNCHANGED <<up, fault, src, pt, integ>>
       ELSE /\ WriteStreamError
            /\ UNCHANGED disk
  /\ UNCHANGED <<proc, mode, dirs, payload, svcUp, dl, req>>
  /\ UNCHANGED auxVars

\* A pending write reaches the disk.  When it was the last one pending and
\* the PassThrough waits for 'drain', the PassThrough flows again.
WriteStreamFlush ==
  /\ proc = "running"
  /\ up.pc = "piping"
  /\ ws.state = "open"
  /\ ws.opened
  /\ ws.buf # <<>>
  /\ disk' = WriteFile(disk, up.path, disk[up.path] \o Head(ws.buf))
  /\ LET flushed == [ws EXCEPT !.buf = Tail(@)]
         drain == flushed.buf = <<>> /\ ~pt.flowing
         st == IF drain
                 THEN EndWhenDrained(Flow([pt |-> [pt EXCEPT !.flowing = TRUE],
                                           ig |-> integ, ws |-> flushed]))
                 ELSE [pt |-> pt, ig |-> integ, ws |-> flushed]
     IN  /\ StreamsBecome(st)
         /\ src' = [src EXCEPT !.state = SourceAfter(st)]
  /\ UNCHANGED <<mode, dirs, up, payload, fault, svcUp, dl, req>>
  /\ UNCHANGED auxVars

\* The pending open or write fails (EACCES, ENOSPC, EIO): 'error'.
WriteStreamFail ==
  /\ proc = "running"
  /\ up.pc = "piping"
  /\ ws.state = "open"
  /\ ~ws.opened \/ ws.buf # <<>>
  /\ WriteStreamError
  /\ UNCHANGED <<proc, mode, disk, dirs, payload, svcUp, dl, req>>
  /\ UNCHANGED auxVars

\* end() was called and every pending write has reached the disk: 'finish'.
WriteStreamFinish ==
  /\ proc = "running"
  /\ up.pc = "piping"
  /\ ws.state = "open"
  /\ ws.opened
  /\ ws.ending
  /\ ws.buf = <<>>
  /\ ws' = [ws EXCEPT !.state = "finished"]
  /\ UNCHANGED <<proc, mode, disk, dirs, up, payload, src, pt, integ, fault, svcUp, dl, req>>
  /\ UNCHANGED auxVars

\* variant: the promise resolved by the integrity stream's 'finish' instead
PipelineDone_AtIntegrityFinish == integ.resolved

\* the event that resolves the promise LocalStorage awaits first:
\* writeStream.on('finish', resolve)
PipelineDone == ws.state = "finished"

\* `await new Promise(...)` returns
UploadAwaited ==
  /\ proc = "running"
  /\ up.pc = "piping"
  /\ PipelineDone
  /\ up' = [up EXCEPT !.pc = "awaitResult"]
  /\ UNCHANGED <<proc, mode, disk, dirs, payload, src, pt, integ, ws, fault, svcUp, dl, req>>
  /\ UNCHANGED auxVars

\* `const metadata = await getResult()` returns and the result is built
UploadReturn ==
  /\ proc = "running"
  /\ up.pc = "awaitResult"
  /\ integ.resolved
  /\ up' = [up EXCEPT !.pc = "returned",
                      !.result = [filename |-> up.name, path |-> up.path,
                                  size |-> integ.result.size,
                                  hash |-> integ.result.hash]]
  /\ UNCHANGED <<proc, mode, disk, dirs, payload, src, pt, integ, ws, fault, svcUp, dl, req>>
  /\ UNCHANGED auxVars

\* StorageService.uploadFileToStorage after its await: the backend's result
\* is returned; a rejection is caught, handed to next() and the placeholder
\* built before the call is returned.
ServiceUploadSettle ==
  /\ proc = "running"
  /\ svcUp.pc = "awaiting"
  /\ up.pc \in {"returned", "rejected"}
  /\ svcUp' = IF up.pc = "returned"
                THEN [pc |-> "returned", result |-> up.result, nextCalled |-> FALSE]
                ELSE [pc |-> "returned",
                      result |-> [filename |-> up.name, path |-> UploadDir,
                                  size |-> 0, hash |-> NoHash],
                      nextCalled |-> TRUE]
  /\ UNCHANGED <<proc, mode, disk, dirs, up, payload, src, pt, integ, ws, fault, dl, req>>
  /\ UNCHANGED auxVars

\* ------------------------------------------------------------------ download

\* LocalStorage.downloadFileFromStorage(filename): the name is joined to the
\* base directory, fs.promises.access checks that something readable is
\* there (a file or a directory), and a read stream on it is returned; any
\* failure of the check is thrown as "File not found or not readable".
\* A read stream on a directory fails with EISDIR once it is read.
LocalDownload(name) ==
  LET fullPath == PathJoin(BaseDir, name)
      isFile == fullPath \in DOMAIN disk
      isDir == fullPath \in dirs
  IN  [NoDownload EXCEPT !.called = TRUE, !.name = name,
                         !.touched = {fullPath},
                         !.backend = IF isFile \/ isDir THEN "stream" ELSE "throw",
                         !.error = IF isFile \/ isDir THEN NoError ELSE LocalNotFoundError,
                         !.data = IF isFile THEN disk[fullPath] ELSE <<>>,
                         !.readError = ~isFile /\ isDir]

\* StorageService.downloadFileFromStorage(filename, next): the backend's
\* stream is returned; a throw is caught, handed to next() and the
\* `new Readable()` made before the call is returned.
ServiceDownload(name) ==
  LET got == LocalDownload(name)
  IN  IF got.backend = "stream"
        THEN [got EXCEPT !.service = "stream"]
        ELSE [got EXCEPT !.service = "stream", !.placeholder = TRUE,
                         !.nextCalled = TRUE]

\* downloads are followed while no upload is between its call and its outcome
CoreQuiet == up.pc \notin {"piping", "awaitResult"}

\* The service's download operation is called, and in it the backend's.
Download(name) ==
  /\ proc = "running"
  /\ CoreQuiet
  /\ dl' = ServiceDownload(name)
  /\ UNCHANGED <<proc, mode, disk, dirs, req>>
  /\ UNCHANGED pipeVars
  /\ UNCHANGED auxVars

\* ------------------------------------------------------------------ entry point

Lower ==
  {"a", "b", "c", "d", "e", "f", "g", "h", "i", "j", "k", "l", "m",
   "n", "o", "p", "q", "r", "s", "t", "u", "v", "w", "x", "y", "z"}

Upper ==
  {"A", "B", "C", "D", "E", "F", "G", "H", "I", "J", "K", "L", "M",
   "N", "O", "P", "Q", "R", "S", "T", "U", "V", "W", "X", "Y", "Z"}

Digit == {"0", "1", "2", "3", "4", "5", "6", "7", "8", "9"}

\* the class [a-zA-Z0-9_-]
StemClass == Lower \cup Upper \cup Digit \cup {"_", "-"}

\* the class [a-zA-Z0-9]
ExtClass == Lower \cup Upper \cup Digit

RECURSIVE RegexScan(_, _, _)
\* /^[a-zA-Z0-9_-]+\.[a-zA-Z0-9]+$/ read left to right: phase "stem" reads
\* the first class, "ext" the second; n counts the characters of the phase
RegexScan(text, phase, n) ==
  IF text = <<>> THEN phase = "ext" /\ n > 0
  ELSE LET c == Head(text)
       IN  IF phase = "stem"
             THEN IF c \in StemClass THEN RegexScan(Tail(text), "stem", n + 1)
                  ELSE c = "." /\ n > 0 /\ RegexScan(Tail(text), "ext", 0)
             ELSE c \in ExtClass /\ RegexScan(Tail(text), "ext", n + 1)

\* variant: the pattern without its extension part, /^[a-zA-Z0-9._-]+$/
FilenameFormatOk_AnyDots(filename) ==
  filename # <<>> /\ \A i \in 1..Len(filename) : filename[i] \in StemClass \cup {"."}

\* /^[a-zA-Z0-9_-]+\.[a-zA-Z0-9]+$/.test(filename)
FilenameFormatOk(filename) == RegexScan(filename, "stem", 0)

\* String.prototype.includes
Includes(text, piece) ==
  \E i \in 1..(Len(text) - Len(piece) + 1) :
    SubSeq(text, i, i + Len(piece) - 1) = piece

\* filename.includes("..") || filename.includes("/") || filename.includes("\\")
PathTraversal(filename) ==
  \/ Includes(filename, <<".", ".">>)
  \/ Includes(filename, <<"/">>)
  \/ Includes(filename, <<"\\">>)

\* the limit of `filename.length > 255`
MaxFilenameLength == 255

Rejected(r, message) ==
  [r EXCEPT !.status = 400, !.error = message, !.nextCalls = @ + 1]

\* StorageController.downloadFileFromStorage(req, res, next), r the request:
\* the checks in their order, each rejecting with next(err) and a 400; then
\* the service call, the headers and the pipe into the response.
ControllerDownload(r) ==
  IF ~r.present \/ r.filename = <<>>
    THEN [Rejected(r, "No file requested") EXCEPT !.threw = TRUE]
  ELSE IF ~FilenameFormatOk(r.filename)
    THEN Rejected(r, "Invalid filename")
  ELSE IF PathTraversal(r.filename)
    THEN Rejected(r, "Invalid filename")
  ELSE IF Len(r.filename) > MaxFilenameLength
    THEN Rejected(r, "Filename too long")
  ELSE LET got == ServiceDownload(r.filename)
       IN  [r EXCEPT !.svcInvoked = TRUE, !.touched = got.touched,
                     !.nextCalls = IF got.nextCalled THEN 1 ELSE 0,
                     !.piped = TRUE]

\* the characters request names are drawn from
NameAlphabet == {"a", "7", "_", "-", ".", "/", "\\", "%"}

RequestNames == SeqsUpTo(NameAlphabet, MaxNameLen)

\* what a request carries as req.params.filename: a name, or nothing
Requests ==
  {[present |-> TRUE, filename |-> f] : f \in RequestNames}
    \cup {[present |-> FALSE, filename |-> <<>>]}

NewRequest(r) ==
  [NoRequest EXCEPT !.handled = TRUE, !.present = r.present, !.filename = r.filename]

\* A download request reaches the controller.  The handler changes nothing
\* the next request reads, so one request is followed.
DownloadRequest ==
  /\ proc = "running"
  /\ CoreQuiet
  /\ ~req.handled
  /\ \E r \in Requests : req' = ControllerDownload(NewRequest(r))
  /\ UNCHANGED <<proc, mode, disk, dirs, dl>>
  /\ UNCHANGED pipeVars
  /\ UNCHANGED auxVars

\* ------------------------------------------------------------------ upload entry point

\* Longest payload of the uploads of SpecPair, in bytes.
MaxPairBytes == 2

\* Milliseconds that pass on the clock during SpecPair.
MaxClock == 1

\* the class [a-zA-Z0-9._-] that sanitization keeps
KeptClass == Lower \cup Upper \cup Digit \cup {".", "_", "-"}

\* req.file.originalname.replace(/[^a-zA-Z0-9._-]/g, "_")
Sanitize(name) ==
  [i \in 1..Len(name) |-> IF name[i] \in KeptClass THEN name[i] ELSE "_"]

DecimalDigits == <<"0", "1", "2", "3", "4", "5", "6", "7", "8", "9">>

RECURSIVE DecimalText(_)
\* a natural number as the template literal prints it
DecimalText(n) ==
  IF n < 10 THEN <<DecimalDigits[n + 1]>>
  ELSE Append(DecimalText(n \div 10), DecimalDigits[(n % 10) + 1])

\* `${Date.now()}-${originalName}`
StoredName(now, originalName) == DecimalText(now) \o <<"-">> \o originalName

\* names clients give their files: two that sanitization makes equal, one
\* that stays apart
OriginalNames ==
  {<<"a", " ", "b", ".", "t">>, <<"a", "?", "b", ".", "t">>, <<"c", ".", "t">>}

\* req.file.buffer of the uploads of SpecPair
PairPayloads == SeqsUpTo(Byte, MaxPairBytes)

\* fs.write of bytes at position pos of a file: the bytes replace what the
\* file holds there, the file grows as needed (a gap reads as zero bytes)
OverlayAt(file, pos, bytes) ==
  LET end == IF pos + Len(bytes) > Len(file) THEN pos + Len(bytes) ELSE Len(file)
  IN  [i \in 1..end |->
         IF pos < i /\ i <= pos + Len(bytes) THEN bytes[i - pos]
         ELSE IF i <= Len(file) THEN file[i]
         ELSE 0]

\* the result of the integrity stream for a source that emits the whole
\* buffer as one chunk (Readable.from(buffer)) and then ends
WholeBufferIntegrity(bytes) ==
  OnFinish(IF bytes = <<>> THEN NewIntegrity ELSE OnData(NewIntegrity, bytes, mode), mode).result

\* StorageController.uploadFileToStorage for upload u, up to the await in
\* LocalStorage: the name is sanitized and prefixed with the clock's
\* millisecond, the buffer becomes the source stream, and the write stream
\* is created on <uploadDir>/<stored name>.  Uploads are numbered as they
\* arrive.
PairReceive(u, original, bytes) ==
  /\ pair.ups[u].pc = "none"
  /\ u = 1 \/ pair.ups[1].pc # "none"
  /\ LET stored == StoredName(pair.clock, Sanitize(original))
     IN  pair' = [pair EXCEPT !.ups[u] =
                    [pc |-> "open", original |-> original, stored |-> stored,
                     path |-> PathJoin(UploadDir, stored), bytes |-> bytes,
                     pos |-> 0, result |-> NoResult]]
  /\ UNCHANGED <<coreVars, prov, inst, http, conc, thrown>>

\* the write stream of upload u opens its file with flags 'w': the file is
\* created, or truncated when it exists
PairOpen(u) ==
  /\ pair.ups[u].pc = "open"
  /\ disk' = WriteFile(disk, pair.ups[u].path, <<>>)
  /\ pair' = [pair EXCEPT !.ups[u].pc = "write"]
  /\ UNCHANGED <<proc, mode, dirs, pipeVars, dl, req, prov, inst, http, conc, thrown>>

\* the pending write of upload u reaches the disk, at the position of the
\* stream's own file descriptor
PairWrite(u) ==
  /\ pair.ups[u].pc = "write"
  /\ LET w == pair.ups[u]
     IN  /\ disk' = WriteFile(disk, w.path, OverlayAt(disk[w.path], w.pos, w.bytes))
         /\ pair' = [pair EXCEPT !.ups[u].pc = "finishing",
                                 !.ups[u].pos = w.pos + Len(w.bytes)]
  /\ UNCHANGED <<proc, mode, dirs, pipeVars, dl, req, prov, inst, http, conc, thrown>>

\* the write stream's 'finish': LocalStorage returns the UploadResult
PairFinish(u) ==
  /\ pair.ups[u].pc = "finishing"
  /\ LET w == pair.ups[u]
         metadata == WholeBufferIntegrity(w.bytes)
     IN  pair' = [pair EXCEPT !.ups[u].pc = "returned",
                              !.ups[u].result =
                                [filename |-> w.stored, path |-> w.path,
                                 size |-> metadata.size, hash |-> metadata.hash]]
  /\ UNCHANGED <<coreVars, prov, inst, http, conc, thrown>>

\* a millisecond passes: Date.now() returns the next value
PairTick ==
  /\ pair.clock < MaxClock
  /\ pair' = [pair EXCEPT !.clock = @ + 1]
  /\ UNCHANGED <<coreVars, prov, inst, http, conc, thrown>>

\* ------------------------------------------------------------------ provider selection

LowerLetters ==
  <<"a", "b", "c", "d", "e", "f", "g", "h", "i", "j", "k", "l", "m",
    "n", "o", "p", "q", "r", "s", "t", "u", "v", "w", "x", "y", "z">>

UpperLetters ==
  <<"A", "B", "C", "D", "E", "F", "G", "H", "I", "J", "K", "L", "M",
    "N", "O", "P", "Q", "R", "S", "T", "U", "V", "W", "X", "Y", "Z">>

\* one character of String.prototype.toUpperCase
UpperChar(c) ==
  IF c \in Lower THEN UpperLetters[CHOOSE i \in 1..26 : LowerLetters[i] = c] ELSE c

\* String.prototype.toUpperCase
ToUpperCase(text) == [i \in 1..Len(text) |-> UpperChar(text[i])]

RECURSIVE CaseVariants(_)
\* a lower-case word in every mix of upper and lower case
CaseVariants(word) ==
  IF word = <<>> THEN {<<>>}
  ELSE {<<c>> \o rest : c \in {Head(word), UpperChar(Head(word))},
                        rest \in CaseVariants(Tail(word))}

KindAzure == <<"a", "z", "u", "r", "e">>

KindLocal == <<"l", "o", "c", "a", "l">>

\* values STORAGE_PROVIDER is given: the two kinds, misspellings of them,
\* other words, a padded kind and the empty text (also standing for unset)
KindWords ==
  {KindAzure, KindLocal, <<"a", "z", "u", "r">>, <<"a", "z", "u", "r", "e", "s">>,
   <<"l", "o", "c", "a">>, <<"s", "3">>, <<"a", "w", "s">>, <<" ", "a", "z", "u", "r", "e">>,
   <<>>}

ProviderKinds == UNION {CaseVariants(w) : w \in KindWords}

\* process.env['STORAGE_PROVIDER'] || 'LOCAL'
ConfiguredProvider(envText) == IF envText = <<>> THEN ToUpperCase(KindLocal) ELSE envText

\* getCloudStorageConfig(): throws unless both credentials are set
CredentialsConfigured(p) == p.accountName /\ p.accountKey

\* variant: a selector that fails on a kind it does not know
SelectByKind_FailOnUnknown(p) ==
  LET provider == ToUpperCase(ConfiguredProvider(p.kind))
  IN  IF provider = ToUpperCase(KindAzure)
        THEN IF CredentialsConfigured(p)
               THEN [p EXCEPT !.selected = "AzureStorage"]
               ELSE [p EXCEPT !.selected = "threw",
                              !.error = NewError("Storage credentials not configured")]
      ELSE IF provider = ToUpperCase(KindLocal)
        THEN [p EXCEPT !.selected = "LocalStorage"]
      ELSE [p EXCEPT !.selected = "threw", !.error = NewError("Unknown storage provider")]

\* StorageFactory.getStorageProvider: "AZURE" constructs AzureStorage, whose
\* constructor reads getCloudStorageConfig(); "LOCAL" and every other value
\* construct LocalStorage.
SelectByKind(p) ==
  LET provider == ToUpperCase(ConfiguredProvider(p.kind))
  IN  IF provider = ToUpperCase(KindAzure)
        THEN IF CredentialsConfigured(p)
               THEN [p EXCEPT !.selected = "AzureStorage"]
               ELSE [p EXCEPT !.selected = "threw",
                              !.error = NewError("Storage credentials not configured")]
      ELSE [p EXCEPT !.selected = "LocalStorage"]

\* createApp selects the storage provider
SelectProvider ==
  /\ prov.selected = "none"
  /\ prov' = SelectByKind(prov)
  /\ UNCHANGED <<coreVars, pair, inst, http, conc, thrown>>

\* AzureStorage.uploadFileToStorage: always throws
RemoteStore ==
  /\ prov.selected = "AzureStorage"
  /\ prov.op = "none"
  /\ prov' = [prov EXCEPT !.op = "store", !.outcome = "throw",
                          !.error = NewError("AzureStorage.uploadFile not implemented yet")]
  /\ UNCHANGED <<coreVars, pair, inst, http, conc, thrown>>

\* AzureStorage.downloadFileFromStorage: always throws
RemoteRetrieve ==
  /\ prov.selected = "AzureStorage"
  /\ prov.op = "none"
  /\ prov' = [prov EXCEPT !.op = "retrieve", !.outcome = "throw",
                          !.error = NewError("AzureStorage.getFile not implemented yet")]
  /\ UNCHANGED <<coreVars, pair, inst, http, conc, thrown>>

\* ------------------------------------------------------------------ upload directory

\* Number of StorageService instances (processes) constructed side by side.
MaxInstances == 4

\* a path and every directory above it
Prefixes(p) == {SubSeq(p, 1, k) : k \in 0..Len(p)}

\* fs.existsSync(path)
ExistsSync(ds, files, p) == p \in ds \/ p \in DOMAIN files

\* variant: fs.mkdirSync(path) without { recursive: true }: EEXIST when the
\* path exists, ENOENT when its parent does not
MkdirSync_Plain(ds, files, p) ==
  IF ExistsSync(ds, files, p) \/ Parent(p) \notin ds
    THEN [dirs |-> ds, threw |-> TRUE]
    ELSE [dirs |-> ds \cup {p}, threw |-> FALSE]

\* fs.mkdirSync(path, { recursive: true }): creates the path and the missing
\* directories above it; an existing directory is no error, a file in the
\* way is (EEXIST, ENOTDIR)
MkdirSync(ds, files, p) ==
  IF Prefixes(p) \cap DOMAIN files # {}
    THEN [dirs |-> ds, threw |-> TRUE]
    ELSE [dirs |-> ds \cup Prefixes(p), threw |-> FALSE]

NewInstance == [pc |-> "new", existedAtMkdir |-> FALSE]

\* StorageService's constructor, instance i: `if (!fs.existsSync(uploadDir))`
ConstructorCheck(i) ==
  /\ inst[i].pc = "new"
  /\ inst' = [inst EXCEPT ![i].pc =
                IF ExistsSync(dirs, disk, UploadDir) THEN "ready" ELSE "mkdir"]
  /\ UNCHANGED <<coreVars, pair, prov, http, conc, thrown>>

\* StorageService's constructor, instance i: `fs.mkdirSync(uploadDir, ...)`,
\* after which the constructor returns, or throws what mkdirSync threw
ConstructorMkdir(i) ==
  /\ inst[i].pc = "mkdir"
  /\ LET made == MkdirSync(dirs, disk, UploadDir)
     IN  /\ dirs' = made.dirs
         /\ inst' = [inst EXCEPT ![i] = [pc |-> IF made.threw THEN "threw" ELSE "ready",
                                         existedAtMkdir |-> UploadDir \in dirs]]
  /\ UNCHANGED <<proc, mode, disk, pipeVars, dl, req, pair, prov, http, conc, thrown>>

\* The upload directory is cleared away while the service runs: it lies
\* under os.tmpdir(), whose unused entries the system removes (rmdir of
\* the empty directory).  No constructor is running.
RemoveUploadDir ==
  /\ proc = "running"
  /\ \A i \in DOMAIN inst : inst[i].pc = "ready"
  /\ UploadDir \in dirs
  /\ \A p \in DOMAIN disk \cup dirs : ~StrictlyInside(p, UploadDir)
  /\ dirs' = dirs \ {UploadDir}
  /\ UNCHANGED <<proc, mode, disk, pipeVars, dl, req, pair, prov, inst, http, conc, thrown>>

\* ------------------------------------------------------------------ Express app

\* getServerConfig().maxFileSize, in bytes (100 MB by default; scaled).
MaxFileSize == 2

\* Upload requests followed within one window of the upload limiter.
MaxRequests == 12

\* max of uploadLimiter: 10 uploads per window
UploadMax == 10

AllowedMimeTypes == {"image/jpeg", "image/png", "application/pdf", "text/plain"}

HeadersSentMessage == "Cannot set headers after they are sent to the client"

\* res.status(status).json(body) on the response of exchange x: the first
\* call sends the status and the body; a call on a response already sent
\* throws ERR_HTTP_HEADERS_SENT and nothing more reaches the client
ResJson(x, status, body) ==
  IF x.headersSent
    THEN [x EXCEPT !.sends = @ + 1, !.thrown = HeadersSentMessage]
    ELSE [x EXCEPT !.sends = @ + 1, !.headersSent = TRUE, !.status = status,
                   !.body = body]

\* variant: a handler that sends err.message under every deployment
ErrorBody_Always(deployment, message) == [text |-> "", detail |-> message]

\* the body of the global error handler: the generic text in PRODUCTION,
\* err.message otherwise
ErrorBody(deployment, message) ==
  IF deployment = "PRODUCTION"
    THEN [text |-> "An internal server error occurred", detail |-> ""]
    ELSE [text |-> "", detail |-> message]

\* next(err): Express runs the global error handler at once, which answers
\* 500; what the handler throws is caught by Express, not by the caller
NextErr(x, message) ==
  [ResJson(x, 500, ErrorBody(x.deployment, message))
     EXCEPT !.nextCalls = @ + 1, !.thrown = x.thrown]

\* variant: a size check that lets every file through
TooLarge_Never(file) == Len(file.buffer) < 0

\* `req.file.size > MAX_FILE_SIZE`
TooLarge(file) == Len(file.buffer) > MaxFileSize

\* StorageController.uploadFileToStorage(req, res, next) on exchange x:
\* each check hands an error to next() and then answers 400 itself; a file
\* that passes gets its stored name and goes to the service, which hands a
\* failure of the backend (here ENOENT) to next() and returns;
\* `res.status(200)` sends nothing.  x.thrown is what the call rejects with.
ControllerUpload(x) ==
  IF ~x.file.present
    THEN LET sent == ResJson(NextErr(x, "No file uploaded"), 400,
                             [text |-> "No file uploaded", detail |-> ""])
         IN  IF sent.thrown = "" THEN [sent EXCEPT !.thrown = "[object ServerResponse]"]
             ELSE sent
  ELSE IF TooLarge(x.file)
    THEN ResJson(NextErr(x, "File size exceeds maximum allowed (100MB)"), 400,
                 [text |-> "File too large", detail |-> ""])
  ELSE IF x.file.mimetype \notin AllowedMimeTypes
    THEN ResJson(NextErr(x, "File type not allowed"), 400,
                 [text |-> "Invalid file type", detail |-> ""])
  ELSE LET called == [x EXCEPT !.svcInvoked = TRUE,
                               !.stored = StoredName(x.now, Sanitize(x.file.originalname))]
       IN  IF x.backendFails
             THEN NextErr(called, "ENOENT: no such file or directory, open '/tmp/uploads/...'")
             ELSE called

\* the handler of POST /upload: the controller is awaited and
\* `res.json(response)` answers; what either throws is answered 500 with
\* the message in the body, and what that throws is left unhandled
RouteUpload(x) ==
  LET done == ControllerUpload(x)
      answered == IF done.thrown = "" THEN ResJson(done, 200, NoBody) ELSE done
  IN  IF answered.thrown = "" THEN answered
      ELSE ResJson(answered, 500, [text |-> "upload failed: ", detail |-> answered.thrown])

\* the handler of GET /download around
\* StorageController.downloadFileFromStorage: a rejected name gets
\* next(err) and a 400; a failure of the backend is handed to next() by the
\* service, after which res.setHeader throws in the controller's try and
\* its catch calls next() again; a stream is piped into the response,
\* which the handler's `res.json(response)` ends before the stream writes.
RouteDownload(x) ==
  LET r == ControllerDownload(NewRequest([present |-> x.present, filename |-> x.filename]))
      message == IF ~x.present \/ x.filename = <<>> THEN "No file requested"
                 ELSE IF ~FilenameFormatOk(x.filename) THEN InvalidFilenameError.message
                 ELSE IF PathTraversal(x.filename)
                   THEN "Invalid filename: path traversal detected"
                 ELSE "Filename too long"
      got == ServiceDownload(x.filename)
      called == [x EXCEPT !.svcInvoked = TRUE]
      done == IF ~r.svcInvoked
                THEN ResJson(NextErr(x, message), 400, [text |-> r.error, detail |-> ""])
              ELSE IF got.nextCalled
                THEN NextErr(NextErr(called, got.error.message), HeadersSentMessage)
              ELSE [called EXCEPT !.piped = TRUE]
      answered == IF done.thrown = "" THEN ResJson(done, 200, NoBody) ELSE done
      caught == IF answered.thrown = "" THEN answered
                ELSE ResJson(answered, 500,
                             [text |-> "download failed: ", detail |-> answered.thrown])
  IN  IF caught.piped THEN [caught EXCEPT !.sends = @ + 1] ELSE caught

\* one pass of a request through uploadLimiter: the hit is counted, and the
\* request is answered 429 once the hits of the window exceed max
UploadLimiter(hits) == [hits |-> hits + 1, limited |-> hits + 1 > UploadMax]

\* POST /api/v1/storage/upload from the one client: the request passes
\* uploadLimiter where app.use mounts it, apiLimiter (100 per window, never
\* reached here), uploadLimiter again where the router mounts it, and then
\* the handler; an accepted file that the backend stores is on disk when
\* the handler is done
HttpUpload(file, now, backendFails) ==
  /\ proc = "running"
  /\ http.served < MaxRequests
  /\ LET x == [NoExchange EXCEPT !.route = "upload", !.deployment = http.deployment,
                                 !.file = file, !.now = now,
                                 !.backendFails = backendFails]
         atApp == UploadLimiter(http.hits)
         atRouter == UploadLimiter(atApp.hits)
         message == "Upload limit exceeded, please try again later"
         done == IF atApp.limited \/ atRouter.limited
                   THEN [ResJson(x, 429, [text |-> message, detail |-> ""])
                           EXCEPT !.limited = TRUE]
                   ELSE RouteUpload(x)
     IN  /\ http' = [http EXCEPT !.hits = IF atApp.limited THEN atApp.hits ELSE atRouter.hits,
                                 !.served = @ + 1, !.last = done]
         /\ disk' = IF done.svcInvoked /\ ~backendFails
                      THEN WriteFile(disk, PathJoin(UploadDir, done.stored), file.buffer)
                      ELSE disk
  /\ UNCHANGED <<proc, mode, dirs, pipeVars, dl, req, pair, prov, inst, conc, thrown>>

\* GET /api/v1/storage/download (downloadLimiter, 50 per window and mounted
\* the same way, admits every request followed here)
HttpDownload(present, filename) ==
  /\ proc = "running"
  /\ CoreQuiet
  /\ LET x == [NoExchange EXCEPT !.route = "download", !.deployment = http.deployment,
                                 !.present = present, !.filename = filename]
     IN  http' = [http EXCEPT !.last = RouteDownload(x)]
  /\ UNCHANGED <<coreVars, pair, prov, inst, conc, thrown>>

\* the window of uploadLimiter is over: its store forgets the hits
WindowElapses ==
  /\ http.hits > 0
  /\ http' = [http EXCEPT !.hits = 0, !.served = 0]
  /\ UNCHANGED <<coreVars, pair, prov, inst, conc, thrown>>

\* ------------------------------------------------------------------ concurrent uploads

\* variant: `size` and `hasher` declared outside create(), one pair for
\* every upload
Owner_Shared(u) == u - (u - 1)

\* the upload whose `size` and `hasher` the listeners of upload u use:
\* create() declares them in its own body, one pair per call
Owner(u) == u

\* LocalStorage.uploadFileToStorage is called for upload u:
\* IntegrityStreamFactory.create makes the PassThrough and its closure,
\* and the source is piped into it.  `joined` notes that the other upload
\* was between two of its chunks at that time.
ConcStart(u, chunks) ==
  /\ proc = "running"
  /\ conc[u].pc = "none"
  /\ LET peer == conc[3 - u]
         fresh == [conc EXCEPT ![Owner(u)].ig = NewIntegrity]
     IN  conc' = [fresh EXCEPT ![u].pc = "piping", ![u].payload = Flatten(chunks),
                               ![u].chunks = chunks,
                               ![u].joined = /\ peer.pc = "piping"
                                             /\ peer.chunks # <<>>
                                             /\ Len(Flatten(peer.chunks)) < Len(peer.payload)]
  /\ UNCHANGED <<coreVars, pair, prov, inst, http, thrown>>

\* the next chunk of upload u's source passes its PassThrough and reaches
\* the 'data' listener of its create() call
ConcData(u) ==
  /\ proc = "running"
  /\ conc[u].pc = "piping"
  /\ conc[u].chunks # <<>>
  /\ LET fed == [conc EXCEPT ![Owner(u)].ig = OnData(@, Head(conc[u].chunks), mode)]
     IN  conc' = [fed EXCEPT ![u].chunks = Tail(@)]
  /\ UNCHANGED <<coreVars, pair, prov, inst, http, thrown>>

\* the source of upload u has ended: the PassThrough's 'finish' listener
\* resolves the result, which the upload returns
ConcFinish(u) ==
  /\ proc = "running"
  /\ conc[u].pc = "piping"
  /\ conc[u].chunks = <<>>
  /\ LET done == [conc EXCEPT ![Owner(u)].ig = OnFinish(@, mode)]
     IN  conc' = [done EXCEPT ![u].pc = "returned", ![u].result = done[Owner(u)].ig.result]
  /\ UNCHANGED <<coreVars, pair, prov, inst, http, thrown>>

\* ------------------------------------------------------------------ access

\* AzureAccess.login(username, password): the mock answers every call alike
AzureLogin(username, password) == [success |-> TRUE, token |-> "mock-jwt-token"]

\* AzureAccess.authenticate(token, userId): the mock answers every call alike
AzureAuthenticate(token) == [success |-> TRUE]

\* the handler of POST /login around AuthenticatorController.login: the
\* credentials of the body go to the service as they are, the token of
\* its answer is set as a cookie and sent with 200; the handler's
\* `res.json(response)` then finds the response sent
RouteLogin(x) ==
  LET response == AzureLogin(x.username, x.password)
      done == [ResJson(x, 200, NoBody) EXCEPT !.svcInvoked = TRUE, !.token = response.token]
      answered == IF done.thrown = "" THEN ResJson(done, 200, NoBody) ELSE done
  IN  IF answered.thrown = "" THEN answered
      ELSE ResJson(answered, 500, [text |-> "login failed: ", detail |-> answered.thrown])

\* the handler of POST /authorize around
\* AuthenticatorController.authenticate: the token is the Authorization
\* header without "Bearer ", or '' without the header; the service is
\* called with it and its answer sent with 200
RouteAuthorize(x) ==
  LET token == IF x.authorization THEN "mock-token" ELSE ""
      response == AzureAuthenticate(token)
      done == [ResJson(x, IF response.success THEN 200 ELSE 401, NoBody)
                 EXCEPT !.svcInvoked = TRUE]
      answered == IF done.thrown = "" THEN ResJson(done, 200, NoBody) ELSE done
  IN  IF answered.thrown = "" THEN answered
      ELSE ResJson(answered, 401,
                   [text |-> "Authorization failed: ", detail |-> answered.thrown])

\* POST /api/v1/access/login with a body that has a password and, or not,
\* a username (accessLimiter, 5 per window, admits the request)
AccessLogin(hasUsername, username, password) ==
  /\ proc = "running"
  /\ LET x == [NoExchange EXCEPT !.route = "login", !.deployment = http.deployment,
                                 !.hasUsername = hasUsername, !.username = username,
                                 !.password = password]
     IN  http' = [http EXCEPT !.last = RouteLogin(x)]
  /\ UNCHANGED <<coreVars, pair, prov, inst, conc, thrown>>

\* POST /api/v1/access/authorize, with or without an Authorization header
AccessAuthorize(authorization) ==
  /\ proc = "running"
  /\ LET x == [NoExchange EXCEPT !.route = "authorize", !.deployment = http.deployment,
                                 !.authorization = authorization]
     IN  http' = [http EXCEPT !.last = RouteAuthorize(x)]
  /\ UNCHANGED <<coreVars, pair, prov, inst, conc, thrown>>

\* ------------------------------------------------------------------ toError

\* Longest text of a thrown string, an Error's message or an object's
\* property.
MaxTextLen == 3

RECURSIVE Escape(_)
\* a string's characters as JSON.stringify writes them between the quotes
Escape(text) ==
  IF text = <<>> THEN <<>>
  ELSE (IF Head(text) \in {"\"", "\\"} THEN <<"\\", Head(text)>> ELSE <<Head(text)>>)
         \o Escape(Tail(text))

\* flatted's stringify(value): the JSON text of the list of the values
\* found, the first being the value itself; a string inside an object is
\* replaced by its index in the list, and a value JSON.stringify has no
\* text for (undefined) leaves its place in the list empty
Stringify(v) ==
  CASE v.type = "string" -> <<"[", "\"">> \o Escape(v.text) \o <<"\"", "]">>
    [] v.type = "number" -> <<"[">> \o DecimalText(v.id) \o <<"]">>
    [] v.type = "null" -> <<"[", "n", "u", "l", "l", "]">>
    [] v.type = "object" ->
         <<"[", "{", "\"", "m", "e", "s", "s", "a", "g", "e", "\"", ":", "\"", "1", "\"",
           "}", ",", "\"">> \o Escape(v.text) \o <<"\"", "]">>
    [] OTHER -> <<"[", "]">>

\* variant: a conversion that wraps every value, Errors included
ToError_AlwaysNew(v) == [type |-> "Error", id |-> 0, text |-> Stringify(v)]

\* toError(maybeError): an Error is returned as it is; any other value
\* becomes a new Error (identity 0) whose message is stringify's text, or
\* String(value) when stringify throws, as JSON.stringify does on a BigInt
ToError(v) ==
  IF v.type = "Error" THEN v
  ELSE [type |-> "Error", id |-> 0,
        text |-> IF v.type = "bigint" THEN DecimalText(v.id) ELSE Stringify(v)]

\* values that are thrown: Errors, strings, objects with a message
\* property, numbers, BigInts, null and undefined
ThrownValues ==
  {[type |-> t, id |-> i, text |-> m] :
     t \in {"Error", "object"}, i \in {1, 2}, m \in SeqsUpTo({"e", "\"", "\\"}, MaxTextLen)}
    \cup {[type |-> "string", id |-> 0, text |-> m] :
            m \in SeqsUpTo({"e", "\"", "\\"}, MaxTextLen)}
    \cup {[type |-> t, id |-> i, text |-> <<>>] : t \in {"number", "bigint"}, i \in {7, 42}}
    \cup {[type |-> t, id |-> 0, text |-> <<>>] : t \in {"null", "undefined"}}

\* a catch block hands what it caught to toError
ToErrorCall ==
  /\ proc = "running"
  /\ \E v \in ThrownValues : thrown' = [called |-> TRUE, value |-> v, result |-> ToError(v)]
  /\ UNCHANGED <<coreVars, pair, prov, inst, http, conc>>

Next ==
  \/ \E name \in UploadNames, chunks \in ChunkSeqs : StartUpload(name, chunks)
  \/ SourceData
  \/ SourceEnd
  \/ \E handled \in BOOLEAN : SourceError(handled)
  \/ WriteStreamOpen
  \/ WriteStreamFlush
  \/ WriteStreamFail
  \/ WriteStreamFinish
  \/ UploadAwaited
  \/ UploadReturn
  \/ ServiceUploadSettle
  \/ \E name \in DownloadNames : Download(name)

Spec == Init /\ [][Next]_vars

\* the download entry point alone, under every request name of the bound
NextEntry == DownloadRequest

SpecEntry == Init /\ [][NextEntry]_vars

\* two uploads through the upload entry point, processed concurrently
InitPair ==
  /\ CoreAtRest("SHA256", EmptyDisk)
  /\ pair = NoPair
  /\ prov = NoProvider
  /\ inst = NoInstances
  /\ http = NoHttp
  /\ conc = NoConc
  /\ thrown = NoThrown

NextPair ==
  \/ \E u \in {1, 2}, original \in OriginalNames, bytes \in PairPayloads :
       PairReceive(u, original, bytes)
  \/ \E u \in {1, 2} : PairOpen(u)
  \/ \E u \in {1, 2} : PairWrite(u)
  \/ \E u \in {1, 2} : PairFinish(u)
  \/ PairTick

SpecPair == InitPair /\ [][NextPair]_vars

\* the provider selection under every configuration of the kind and of the
\* remote credentials
InitProvider ==
  /\ CoreAtRest("SIZE", EmptyDisk)
  /\ pair = NoPair
  /\ \E k \in ProviderKinds, name \in BOOLEAN, key \in BOOLEAN :
       prov = [NoProvider EXCEPT !.kind = k, !.accountName = name, !.accountKey = key]
  /\ inst = NoInstances
  /\ http = NoHttp
  /\ conc = NoConc
  /\ thrown = NoThrown

NextProvider ==
  \/ SelectProvider
  \/ RemoteStore
  \/ RemoteRetrieve

SpecProvider == InitProvider /\ [][NextProvider]_vars

\* Longest payload of the uploads of SpecFlow, in bytes.
MaxFlowBytes == 5

RECURSIVE ChunkSeqsOver(_, _)
\* the sequences of chunks drawn from cs that carry at most n bytes
ChunkSeqsOver(cs, n) ==
  {<<>>} \cup UNION {{<<c>> \o rest : rest \in ChunkSeqsOver(cs, n - Len(c))} :
                     c \in {d \in cs : Len(d) <= n}}

\* every chunking of a payload of equal bytes, at most MaxFlowBytes long
FlowChunkSeqs == ChunkSeqsOver(SeqsUpTo({1}, MaxFlowBytes) \ {<<>>}, MaxFlowBytes)

\* one upload longer than the buffers of its pipeline, in the default mode
InitFlow ==
  /\ CoreAtRest("SIZE", EmptyDisk)
  /\ pair = NoPair
  /\ prov = NoProvider
  /\ inst = NoInstances
  /\ http = NoHttp
  /\ conc = NoConc
  /\ thrown = NoThrown

NextFlow ==
  \/ \E chunks \in FlowChunkSeqs : StartUpload(NameAB, chunks)
  \/ SourceData
  \/ SourceEnd
  \/ \E handled \in BOOLEAN : SourceError(handled)
  \/ WriteStreamOpen
  \/ WriteStreamFlush
  \/ WriteStreamFail
  \/ WriteStreamFinish
  \/ UploadAwaited
  \/ UploadReturn
  \/ ServiceUploadSettle

SpecFlow == InitFlow /\ [][NextFlow]_vars

\* several StorageService instances constructed side by side, over a
\* base directory that holds the upload directory, or not, or is missing
InitMkdir ==
  /\ proc = "running"
  /\ mode = "SIZE"
  /\ disk = EmptyDisk
  /\ dirs \in {{<<>>}, {<<>>, BaseDir}, {<<>>, BaseDir, UploadDir}}
  /\ up = IdleUpload
  /\ payload = <<>>
  /\ src = IdleSource
  /\ pt = IdlePassThrough
  /\ integ = NewIntegrity
  /\ ws = IdleWriteStream
  /\ fault = {}
  /\ svcUp = IdleService
  /\ dl = NoDownload
  /\ req = NoRequest
  /\ pair = NoPair
  /\ prov = NoProvider
  /\ inst = [i \in 1..MaxInstances |-> NewInstance]
  /\ http = NoHttp
  /\ conc = NoConc
  /\ thrown = NoThrown

NextMkdir ==
  \/ \E i \in 1..MaxInstances : ConstructorCheck(i)
  \/ \E i \in 1..MaxInstances : ConstructorMkdir(i)

SpecMkdir == InitMkdir /\ [][NextMkdir]_vars

\* one StorageService is constructed over a base directory without the
\* upload directory, then serves uploads while the temp directory is
\* cleaned from time to time
InitDir ==
  /\ proc = "running"
  /\ mode = "SIZE"
  /\ disk = EmptyDisk
  /\ dirs = {<<>>, BaseDir}
  /\ up = IdleUpload
  /\ payload = <<>>
  /\ src = IdleSource
  /\ pt = IdlePassThrough
  /\ integ = NewIntegrity
  /\ ws = IdleWriteStream
  /\ fault = {}
  /\ svcUp = IdleService
  /\ dl = NoDownload
  /\ req = NoRequest
  /\ pair = NoPair
  /\ prov = NoProvider
  /\ inst = [i \in {1} |-> NewInstance]
  /\ http = NoHttp
  /\ conc = NoConc
  /\ thrown = NoThrown

NextDir ==
  \/ ConstructorCheck(1)
  \/ ConstructorMkdir(1)
  \/ RemoveUploadDir
  \/ \E chunks \in ChunkSeqs : inst[1].pc = "ready" /\ StartUpload(NameAB, chunks)
  \/ SourceData
  \/ SourceEnd
  \/ WriteStreamOpen
  \/ WriteStreamFlush
  \/ WriteStreamFinish
  \/ UploadAwaited
  \/ UploadReturn
  \/ ServiceUploadSettle

SpecDir == InitDir /\ [][NextDir]_vars

\* Upload requests followed in SpecHttp.
MaxExchanges == 2

\* names clients give their files: one with a single dot, one with two
HttpOriginalNames == {<<"c", ".", "t">>, <<"a", ".", "b", ".", "t">>}

\* what multer leaves in req.file: nothing, or a file whose size is
\* within one byte of MaxFileSize, below or above, and whose content type
\* is one of two of the allow-list or one outside it
HttpFiles ==
  {NoFile} \cup
  {[present |-> TRUE, originalname |-> n, mimetype |-> m, buffer |-> b] :
     n \in HttpOriginalNames, m \in {"text/plain", "image/png", "text/html"},
     b \in {s \in SeqsUpTo({1}, MaxFileSize + 1) : Len(s) >= MaxFileSize - 1}}

\* what download requests carry as req.params.filename: nothing, a name on
\* disk, a name outside the upload directory, or a stored name
HttpDownloads ==
  {[present |-> FALSE, filename |-> <<>>]} \cup
  {[present |-> TRUE, filename |-> f] :
     f \in {NameAB, NameParentS} \cup
           {StoredName(now, Sanitize(n)) : now \in 0..MaxClock, n \in HttpOriginalNames}}

\* the app under each deployment, over the files the machine holds
InitHttp ==
  /\ CoreAtRest("SIZE", EnvDisk)
  /\ pair = NoPair
  /\ prov = NoProvider
  /\ inst = NoInstances
  /\ \E d \in {"PRODUCTION", "TEST"} : http = [NoHttp EXCEPT !.deployment = d]
  /\ conc = NoConc
  /\ thrown = NoThrown

NextHttp ==
  \/ \E file \in HttpFiles, now \in 0..MaxClock, backendFails \in BOOLEAN :
       http.served < MaxExchanges /\ HttpUpload(file, now, backendFails)
  \/ \E r \in HttpDownloads : HttpDownload(r.present, r.filename)

SpecHttp == InitHttp /\ [][NextHttp]_vars

\* the uploads of one client over the windows of the upload limiter
NextLimit ==
  \/ \E file \in {f \in HttpFiles : f.mimetype \in {"", "text/plain"}},
        backendFails \in BOOLEAN : HttpUpload(file, 0, backendFails)
  \/ WindowElapses

SpecLimit == InitHttp /\ [][NextLimit]_vars

\* the access routes under every username of the bound, present or not,
\* and passwords of five, seven and eleven characters
NextAccess ==
  \/ \E username \in SeqsUpTo({"u", "7", "@"}, MaxTextLen),
        password \in {<<"s", "h", "o", "r", "t">>, <<"T", "e", "s", "t", "1", "2", "3">>,
                      <<"T", "e", "s", "t", "P", "a", "s", "s", "1", "2", "3">>} :
       \/ AccessLogin(TRUE, username, password)
       \/ username = <<>> /\ AccessLogin(FALSE, username, password)
  \/ \E authorization \in BOOLEAN : AccessAuthorize(authorization)

SpecAccess == InitFlow /\ [][NextAccess]_vars

\* two uploads in flight at once in SHA256 mode, their chunks reaching the
\* listeners in every order
NextConc ==
  \/ \E u \in {1, 2}, chunks \in ChunkSeqs : ConcStart(u, chunks)
  \/ \E u \in {1, 2} : ConcData(u)
  \/ \E u \in {1, 2} : ConcFinish(u)

SpecConc == InitPair /\ [][NextConc]_vars

\* toError under every thrown value of the bound
SpecToError == InitFlow /\ [][ToErrorCall]_vars

\* ------------------------------------------------------------------ claims

\* a name with a parent-directory segment or a path separator in it
UnsafeName(name) ==
  \/ \E i \in 1..(Len(name) - 1) : name[i] = "." /\ name[i + 1] = "."
  \/ \E i \in 1..Len(name) : name[i] \in {"/", "\\"}

\* alphanumerics, dash and underscore, then a single dot, then an
\* alphanumeric extension
AllowListed(name) ==
  \E i \in 2..(Len(name) - 1) :
    /\ name[i] = "."
    /\ \A j \in 1..(i - 1) : name[j] \in Lower \cup Upper \cup Digit \cup {"-", "_"}
    /\ \A j \in (i + 1)..Len(name) : name[j] \in Lower \cup Upper \cup Digit

RECURSIVE DigestOf(_)
\* the digest of a whole byte sequence, computed from its last byte back
DigestOf(bytes) ==
  IF bytes = <<>> THEN 0
  ELSE (DigestOf(SubSeq(bytes, 1, Len(bytes) - 1)) * 3 + bytes[Len(bytes)]) % 256

\* the steps of an upload that the program takes by itself
PipelineStep ==
  \/ SourceData
  \/ SourceEnd
  \/ WriteStreamOpen
  \/ WriteStreamFlush
  \/ WriteStreamFinish
  \/ UploadAwaited
  \/ UploadReturn

\* The event loop runs every callback that stays ready: the steps of the
\* pipeline and the continuation of the service are taken eventually.
FairSpec == Spec /\ WF_vars(PipelineStep) /\ WF_vars(ServiceUploadSettle)

\* C1: when the backend's store fails, StorageService.uploadFileToStorage
\* fails too and returns no UploadResult (no placeholder of size 0).
C1_StoreFailureSurfaces ==
  (up.pc = "rejected" /\ svcUp.pc # "awaiting") => svcUp.pc = "threw"

\* C2: when the backend's retrieve fails, StorageService.downloadFileFromStorage
\* fails too and returns no stream.
C2_RetrieveFailureSurfaces ==
  (dl.called /\ dl.backend = "throw") => dl.service = "throw"

\* C3: after a successful Local store of bytes B under name N, a retrieve by
\* N yields exactly B.
C3_RoundTrip ==
  (up.pc = "returned" /\ dl.called /\ dl.name = up.name)
    => (dl.backend = "stream" /\ ~dl.readError /\ dl.data = payload)

\* C4: the file a Local retrieve opens lies strictly inside <base>/uploads.
C4_RetrieveInsideUploadDir ==
  (dl.called /\ dl.backend = "stream")
    => \A p \in dl.touched : StrictlyInside(p, UploadDir)

\* C5: the core, called directly with a name containing "..", "/" or "\",
\* rejects it before any filesystem access.
C5_CoreRejectsUnsafeName ==
  (dl.called /\ UnsafeName(dl.name))
    => (dl.backend = "throw" /\ dl.service = "throw" /\ dl.touched = {})

\* C6: the download entry point rejects every requested name that contains
\* "..", "/" or "\", or that is not allow-listed, and for such a name
\* neither the service nor the backend is invoked (no path is touched,
\* nothing is piped into the response).
C6_EntryRejectsUnsafeName ==
  (req.handled /\ req.present
     /\ (UnsafeName(req.filename) \/ ~AllowListed(req.filename)))
    => /\ req.status = 400
       /\ req.nextCalls = 1
       /\ ~req.svcInvoked
       /\ req.touched = {}
       /\ ~req.piped

\* C6 witness: a traversal name was requested and rejected
C6_Witness ==
  /\ req.handled
  /\ req.filename = <<".", ".", "/", "a">>
  /\ req.status = 400
  /\ ~req.svcInvoked

\* with C6: an allow-listed name does reach the service and the backend
EntryAcceptsSafeName ==
  (req.handled /\ req.present /\ AllowListed(req.filename) /\ ~UnsafeName(req.filename))
    => (req.svcInvoked /\ req.touched # {} /\ req.status = 0)

\* C7: after an I/O failure of the source stream or of the destination
\* write, once the upload's streams have come to rest, the store call has
\* rejected (and so produced no UploadResult).
C7_IoFailureRejects ==
  (fault # {} /\ ~ENABLED PipelineStep) => up.pc = "rejected"

\* with C7: a failure of the destination does reject the store call
DestinationFailureRejects ==
  "dest" \in fault => (up.pc = "rejected" /\ up.result = NoResult)

\* C8: a store call has returned its UploadResult only when the write stream
\* has finished with nothing pending anywhere in the pipeline, every byte of
\* the source is in the destination file, and the integrity result has
\* resolved.
C8_ReturnAfterFlush ==
  up.pc = "returned"
    => /\ ws.state = "finished"
       /\ ws.buf = <<>>
       /\ pt.buf = <<>>
       /\ src.chunks = <<>>
       /\ integ.resolved
       /\ up.path \in DOMAIN disk
       /\ disk[up.path] = payload

\* C8 witness: an upload of several bytes has returned
C8_Witness ==
  up.pc = "returned" /\ Len(payload) >= 2 /\ up.result.size = Len(payload)

\* C9: the size of a returned UploadResult is the number of bytes written
\* to the destination.
C9_SizeExact ==
  up.pc = "returned" => up.result.size = Len(disk[up.path])

\* C10: in SHA256 mode the hash of the UploadResult is the digest of the
\* bytes later retrieved under the same stored name.
C10_HashOfRetrievedBytes ==
  (mode = "SHA256" /\ up.pc = "returned" /\ dl.called /\ dl.name = up.name)
    => (dl.backend = "stream" /\ up.result.hash = HashDigestHex(DigestOf(dl.data)))

\* with C10: in SHA256 mode the hash of a returned UploadResult is the digest
\* of the bytes persisted in the destination file
HashOfPersistedBytes ==
  (mode = "SHA256" /\ up.pc = "returned")
    => up.result.hash = HashDigestHex(DigestOf(disk[up.path]))

EmptyUploadInSizeMode ==
  (up.pc = "returned" /\ mode = "SIZE" /\ payload = <<>>)
    => (up.result.size = 0 /\ up.result.hash = NoHash)

\* a 0-byte upload in SIZE mode has returned
EmptyUploadInSizeModeReturned ==
  up.pc = "returned" /\ mode = "SIZE" /\ payload = <<>>

\* C12: once both of two uploads have returned, the file under each one's
\* stored name holds exactly that upload's payload, also when their names
\* are equal after sanitization and they arrive in the same millisecond.
C12_UploadsKeepTheirBytes ==
  (\A u \in {1, 2} : pair.ups[u].pc = "returned")
    => \A u \in {1, 2} : disk[pair.ups[u].path] = pair.ups[u].bytes

\* with C12: uploads whose stored names differ keep their bytes
DistinctStoredNamesKeepTheirBytes ==
  (pair.ups[1].pc = "returned" /\ pair.ups[2].pc = "returned"
     /\ pair.ups[1].stored # pair.ups[2].stored)
    => \A u \in {1, 2} : disk[pair.ups[u].path] = pair.ups[u].bytes

\* with C12: names that sanitization makes equal, received a millisecond
\* apart, have returned
CollidingNamesApartReturned ==
  /\ pair.ups[1].pc = "returned" /\ pair.ups[2].pc = "returned"
  /\ pair.ups[1].original # pair.ups[2].original
  /\ Sanitize(pair.ups[1].original) = Sanitize(pair.ups[2].original)
  /\ pair.ups[1].stored # pair.ups[2].stored
  /\ pair.ups[1].bytes # pair.ups[2].bytes

\* C13: every upload that has started (Streaming) eventually reaches one of
\* its terminal states, Persisted (the call returned) or Failed (the call
\* rejected): the store call never stays pending for ever while the process
\* lives.
C13_StartedUploadSettles ==
  (up.pc = "piping") ~> (up.pc \in {"returned", "rejected"} \/ proc = "crashed")

\* with C13: the call moves only Received -> Streaming -> Verifying ->
\* Persisted or Streaming -> Failed
UploadTransitions ==
  [][up'.pc # up.pc =>
       <<up.pc, up'.pc>> \in {<<"idle", "piping">>, <<"piping", "awaitResult">>,
                              <<"awaitResult", "returned">>, <<"piping", "rejected">>}]_vars

\* with C13: while the source stream does not fail, the started upload
\* settles
SettlesWithoutSourceFailure ==
  ([]("source" \notin fault))
    => ((up.pc = "piping") ~> (up.pc \in {"returned", "rejected"} \/ proc = "crashed"))

\* C14: when an upload has ended in Failed (the store call rejected), no
\* file is left under its stored name: the partial bytes are discarded.
C14_NoPartialArtifact ==
  up.pc = "rejected" => up.path \notin DOMAIN disk

\* with C14: a rejected upload has left a truncated file under its name
TruncatedArtifactLeft ==
  /\ up.pc = "rejected"
  /\ up.path \in DOMAIN disk
  /\ disk[up.path] # <<>>
  /\ Len(disk[up.path]) < Len(payload)

\* a provider kind the selector knows: LOCAL or AZURE, in any case
RecognisedKind(kind) == kind \in CaseVariants(KindLocal) \cup CaseVariants(KindAzure)

\* C15: for every provider kind that is not a recognised one (unknown,
\* misspelled or empty) the selector returns a LocalStorage and does not
\* fail.
C15_UnknownKindFallsBackToLocal ==
  (prov.selected # "none" /\ ~RecognisedKind(prov.kind))
    => (prov.selected = "LocalStorage" /\ prov.error = NoError)

\* C15 witness: a misspelled kind was configured and LocalStorage selected
C15_Witness ==
  /\ prov.kind = <<"A", "z", "u", "r">>
  /\ prov.selected = "LocalStorage"

\* what an error object tells its catcher besides its message text: the
\* name of its class and its code
ErrorKind(e) == <<e.name, e.code>>

\* C16: a failure of the remote backend (its construction without
\* credentials, its store, its retrieve) carries an error whose kind tells
\* it apart from the failures of the other kinds (not found, validation),
\* and no operation of the remote backend succeeds.
C16_RemoteFailureKind ==
  /\ prov.op # "none" => prov.outcome = "throw"
  /\ prov.error # NoError =>
       ErrorKind(prov.error) \notin {ErrorKind(LocalNotFoundError), ErrorKind(InvalidFilenameError)}

\* with C16: no operation of the remote backend yields a result or a stream
RemoteNeverSucceeds ==
  prov.op # "none" => (prov.outcome = "throw" /\ prov.error # NoError)

\* with C16: without credentials the remote backend is never constructed
RemoteNeedsCredentials ==
  prov.selected = "AzureStorage" => (prov.accountName /\ prov.accountKey)

\* C17: the retrieve of a name whose file does not exist fails towards the
\* caller of the service, with an error whose kind tells it apart from a
\* validation failure and from a not-implemented failure.
C17_MissingFileIsNotFound ==
  (dl.called /\ dl.backend = "throw")
    => /\ dl.service = "throw"
       /\ ErrorKind(dl.error) \notin
            {ErrorKind(InvalidFilenameError),
             ErrorKind(NewError("AzureStorage.getFile not implemented yet"))}

\* with C17: the backend throws for every name whose file is missing
MissingFileThrowsAtBackend ==
  (dl.called /\ PathJoin(BaseDir, dl.name) \notin DOMAIN disk \cup dirs)
    => (dl.backend = "throw" /\ dl.error = LocalNotFoundError)

\* C18: when the integrity result is resolved, every chunk the source
\* emits has been counted and hashed, once and in the order of emission:
\* the result is the size and the digest of the whole payload.
C18_ResultCoversEveryChunk ==
  integ.resolved
    => /\ integ.result.size = Len(payload)
       /\ mode = "SHA256" => integ.result.hash = HashDigestHex(DigestOf(payload))

\* with C18: the chunks the integrity stream has seen so far are the bytes
\* that left the source and the PassThrough's buffer, counted once and
\* hashed in the order of the payload
ChunksObservedInOrder ==
  (up.pc = "piping" /\ ~integ.threw)
    => /\ integ.size = Len(payload) - Bytes(src.chunks) - Bytes(pt.buf)
       /\ mode = "SHA256" => integ.hasher = DigestOf(SubSeq(payload, 1, integ.size))

\* with C18: a result was resolved while a chunk waited in the PassThrough
ResolvedBeforeLastChunk ==
  integ.resolved /\ pt.buf # <<>> /\ integ.result.size < Len(payload)

\* the chunks of a buffer but the last one
Front(cs) == IF cs = <<>> THEN <<>> ELSE SubSeq(cs, 1, Len(cs) - 1)

\* C19: at every moment of an upload each buffer between the source and
\* the destination held less than highWaterMark bytes when it took its last
\* chunk, so the bytes in flight stay below two times highWaterMark plus
\* two chunks, whatever the size of the upload; and the source is not read
\* while the PassThrough is full.
C19_BuffersBounded ==
  up.pc = "piping"
    => /\ Bytes(Front(ws.buf)) < HighWaterMark
       /\ Bytes(Front(pt.buf)) < HighWaterMark
       /\ Bytes(pt.buf) >= HighWaterMark => src.state # "flowing"
       /\ (pt.buf # <<>> /\ ws.state = "open") => ~pt.flowing

\* C19 witness: the destination is behind, the PassThrough is paused and
\* full, and the source, with more to deliver, is paused too
C19_Witness ==
  /\ up.pc = "piping"
  /\ Bytes(ws.buf) >= HighWaterMark
  /\ ~pt.flowing
  /\ Bytes(pt.buf) >= HighWaterMark
  /\ src.chunks # <<>>
  /\ src.state = "paused"

\* C20: no StorageService constructor fails on the upload directory,
\* whether the directory exists already or several instances create it at
\* the same time, and every constructed instance finds the directory in
\* place.
C20_MkdirIdempotent ==
  \A i \in DOMAIN inst :
    /\ inst[i].pc # "threw"
    /\ inst[i].pc = "ready" => UploadDir \in dirs

\* C20 witness: an instance saw the directory missing, another one created
\* it first, and the instance's own mkdirSync was a success all the same
C20_Witness ==
  \E i \in DOMAIN inst : inst[i].pc = "ready" /\ inst[i].existedAtMkdir

\* C21: whenever LocalStorage opens its write stream at
\* <base>/uploads/<name>, the upload directory exists, so that no store
\* fails because the directory is missing at the time of the call.
C21_UploadDirExistsAtOpen ==
  (up.pc = "piping" /\ ws.state = "open" /\ ~ws.opened) => UploadDir \in dirs

\* C21: a store of a safe name was rejected and the constructed service
\* is left without its upload directory
StoreFailedOnMissingDir ==
  /\ up.pc = "rejected"
  /\ up.name = NameAB
  /\ UploadDir \notin dirs
  /\ \A i \in DOMAIN inst : inst[i].pc = "ready"

\* C22: an upload whose file is longer than the maximum size, or whose
\* content type is not on the allow-list, is rejected by the upload entry
\* point, never reaches the storage service, and leaves every file as it
\* was.
C22_InvalidUploadNeverStored ==
  [][(/\ http'.last.route = "upload"
      /\ http'.last.file.present
      /\ \/ Len(http'.last.file.buffer) > MaxFileSize
         \/ http'.last.file.mimetype \notin AllowedMimeTypes)
     => (/\ ~http'.last.svcInvoked
         /\ http'.last.status >= 400
         /\ disk' = disk)]_vars

\* C22 witness: an upload passed the limiter with a file over the maximum
\* size and was turned away before the service call
C22_Witness ==
  /\ http.last.route = "upload"
  /\ ~http.last.limited
  /\ http.last.file.present
  /\ Len(http.last.file.buffer) > MaxFileSize
  /\ http.last.file.mimetype \in AllowedMimeTypes
  /\ ~http.last.svcInvoked
  /\ http.last.nextCalls = 1

\* C23: in a PRODUCTION deployment, the response the client receives for a
\* failed upload or download carries no error message of the program (no
\* message of a thrown error, no path), only a fixed text.
C23_NoDetailInProduction ==
  (/\ http.deployment = "PRODUCTION"
   /\ http.last.route \in {"upload", "download"}
   /\ http.last.status >= 400)
  => (http.last.body.detail = "" /\ http.last.body.text # "")

\* C23 witness: in PRODUCTION the backend failed during an upload, the
\* client got the 500 with the fixed text, and the handler's later answer
\* with the error message in it was refused
C23_Witness ==
  /\ http.deployment = "PRODUCTION"
  /\ http.last.route = "upload"
  /\ http.last.svcInvoked
  /\ http.last.backendFails
  /\ http.last.status = 500
  /\ http.last.body.detail = ""
  /\ http.last.thrown = HeadersSentMessage

\* String(value), for the values that have one text: a string is its own
\* text, a number its digits
StringForm(v) ==
  CASE v.type = "string" -> v.text
    [] v.type \in {"number", "bigint"} -> DecimalText(v.id)
    [] v.type = "null" -> <<"n", "u", "l", "l">>
    [] v.type = "undefined" -> <<"u", "n", "d", "e", "f", "i", "n", "e", "d">>
    [] OTHER -> v.text

HasEscaped(text) == \E i \in 1..Len(text) : text[i] \in {"\"", "\\"}

WellFormedCredentials(x) ==
  /\ x.hasUsername
  /\ x.username # <<>>
  /\ \A i \in 1..Len(x.username) : x.username[i] \in Lower \cup Upper \cup Digit \cup {"_", "-"}
  /\ Len(x.password) >= 8

C27_ResultOfOwnBytes ==
  \A u \in {1, 2} :
    conc[u].pc = "returned" =>
      \E k \in 0..Len(conc[u].payload) :
        /\ conc[u].result.size = k
        /\ conc[u].result.hash = HashDigestHex(DigestOf(SubSeq(conc[u].payload, 1, k)))

\* C27 witness: upload 2 started between two chunks of upload 1, and both
\* returned results, of different payloads
C27_Witness ==
  /\ conc[1].pc = "returned"
  /\ conc[2].pc = "returned"
  /\ conc[2].joined
  /\ conc[1].payload # conc[2].payload
  /\ conc[2].payload # <<>>
  /\ conc[1].result.size = Len(conc[1].payload)
  /\ conc[2].result.size = Len(conc[2].payload)

\* C28: for every upload or download request, at most one response is
\* written: once the controller, the route handler or the global error
\* handler has answered, none of them answers the same request again.
C28_AtMostOneResponse ==
  http.last.route \in {"upload", "download"} => http.last.sends <= 1

\* C28: a download found its file, and the response was ended by the
\* handler before the stream piped into it wrote
DownloadAnsweredTwice ==
  /\ http.last.route = "download"
  /\ http.last.piped
  /\ http.last.status = 200
  /\ http.last.sends = 2

\* C29: within one window of the upload limiter the first UploadMax
\* upload requests of the client pass the limiter, and only the requests
\* after them are rejected.
C29_TenUploadsPerWindow ==
  http.last.route = "upload" => (http.last.limited <=> http.served > UploadMax)

\* C29: the sixth upload request of the window was rejected
SixthUploadLimited ==
  /\ http.last.route = "upload"
  /\ http.last.limited
  /\ http.served = 6

\* C30: the stored name the upload entry point gives an accepted file
\* passes the filename checks of the download entry point.
C30_StoredNameDownloadable ==
  (http.last.route = "upload" /\ http.last.svcInvoked) =>
    /\ FilenameFormatOk(http.last.stored)
    /\ ~PathTraversal(http.last.stored)
    /\ Len(http.last.stored) <= MaxFilenameLength

\* C30: a file was stored under a name with two dots, and the download
\* request for that stored name was turned away before the service
StoredNameRejected ==
  /\ http.last.route = "download"
  /\ PathJoin(UploadDir, http.last.filename) \in DOMAIN disk
  /\ ~http.last.svcInvoked
  /\ http.last.nextCalls = 1

====
